---- MODULE Spec2Model ----
(***************************************************************************)
(* A model of validate.py: the character-by-character SPIFFE-ID validator. *)
(* Strings are sequences of one-character strings.  validate() is modelled *)
(* statement by statement: `pc` is the position in its body, the other     *)
(* variables are its locals and its return value.                          *)
(***************************************************************************)
EXTENDS Integers, Sequences, FiniteSets, TLC

VARIABLES spiffe_id, pc, cursor, c, authority, path, segment_start, segment,
          result, call, first_id, first_result

vars == <<spiffe_id, pc, cursor, c, authority, path, segment_start, segment,
          result, call, first_id, first_result>>

locals == <<cursor, c, authority, path, segment_start, segment>>

callstate == <<call, first_id, first_result>>

(***************************************************************************)
(* Bounds of the checked input space.                                      *)
(***************************************************************************)
\* longest tail appended to the full "spiffe://" prefix
MaxTail == 5
\* longest tail appended to a truncated or corrupted prefix
MaxShort == 2

(***************************************************************************)
(* Python values.                                                          *)
(***************************************************************************)
\* Python's None: a value that is no character sequence
None == <<"None">>

\* raised by target[num] when num is out of range
IndexError == "IndexError"

Min(a, b) == IF a < b THEN a ELSE b

\* target[start:end] for start, end >= 0: a slice never raises, it clamps
substring(target, start, end) ==
    SubSeq(target, Min(start, Len(target)) + 1, Min(end, Len(target)))

\* target[num]: raises IndexError outside -len .. len-1
character_at(target, num) ==
    IF num >= 0 /\ num < Len(target) THEN target[num + 1]
    ELSE IF num < 0 /\ num >= 0 - Len(target) THEN target[Len(target) + num + 1]
    ELSE IndexError

\* AUTHORITY_CHARS as it would be if a port were let through
AUTHORITY_CHARS_WithColon ==
    <<"a","b","c","d","e","f","g","h","i","j","k","l","m",
      "n","o","p","q","r","s","t","u","v","w","x","y","z",
      "0","1","2","3","4","5","6","7","8","9",".","-","_",":">>

AUTHORITY_CHARS ==
    <<"a","b","c","d","e","f","g","h","i","j","k","l","m",
      "n","o","p","q","r","s","t","u","v","w","x","y","z",
      "0","1","2","3","4","5","6","7","8","9",".","-","_">>

\* PATH_SEGMENT_CHARS as it would be if percent-encoding were let through
PATH_SEGMENT_CHARS_WithPercent ==
    <<"A","a","B","b","C","c","D","d","E","e","F","f","G","g","H","h","I","i",
      "J","j","K","k","L","l","M","m","N","n","O","o","P","p","Q","q","R","r",
      "S","s","T","t","U","u","V","v","W","w","X","x","Y","y","Z","z",
      "0","1","2","3","4","5","6","7","8","9",".","-","_","%">>

PATH_SEGMENT_CHARS ==
    <<"A","a","B","b","C","c","D","d","E","e","F","f","G","g","H","h","I","i",
      "J","j","K","k","L","l","M","m","N","n","O","o","P","p","Q","q","R","r",
      "S","s","T","t","U","u","V","v","W","w","X","x","Y","y","Z","z",
      "0","1","2","3","4","5","6","7","8","9",".","-","_">>

\* `ch in chars` for a one-character ch
In(ch, chars) == \E k \in DOMAIN chars : chars[k] = ch

\* the literal "spiffe://"
SCHEME == <<"s","p","i","f","f","e",":","/","/">>

\* the segment test with ".." forgotten
SegmentRejectedWithoutDotDot(seg) == seg \in {<< >>, <<".">>}

\* the segment test as a prefix test: any segment that starts with "."
SegmentRejectedLeadingDot(seg) == seg = << >> \/ seg[1] = "."

\* segment in ["", ".", ".."]
SegmentRejected(seg) == seg \in {<< >>, <<".">>, <<".", ".">>}

\* return False, None, None
Invalid == [valid |-> FALSE, authority |-> None, path |-> None]

\* return True, authority, path
Valid(a, p) == [valid |-> TRUE, authority |-> a, path |-> p]

\* the value of `result` while validate() has not returned
NoResult == [valid |-> FALSE, authority |-> None, path |-> <<"running">>]

(***************************************************************************)
(* The inputs validate() is called with.                                   *)
(***************************************************************************)
\* a lowercase letter, its uppercase, '.', '/', and two characters of
\* neither class
Alphabet == {"s", "S", ".", "/", ":", "%"}

SeqsUpTo(S, n) == UNION {[1..k -> S] : k \in 0..n}

ToUpper(ch) ==
    CASE ch = "s" -> "S" [] ch = "p" -> "P" [] ch = "i" -> "I"
      [] ch = "f" -> "F" [] ch = "e" -> "E" [] OTHER -> ch

ToLower(ch) ==
    CASE ch = "S" -> "s" [] ch = "P" -> "p" [] ch = "I" -> "i"
      [] ch = "F" -> "f" [] ch = "E" -> "e" [] OTHER -> ch

ReplaceAt(s, i, ch) == [k \in 1..Len(s) |-> IF k = i THEN ch ELSE s[k]]

\* s with the letters at the positions U uppercased
UpperAt(s, U) == [k \in 1..Len(s) |-> IF k \in U THEN ToUpper(s[k]) ELSE s[k]]

\* positions of the letters of "spiffe://"
SchemeLetters == 1..6

Inputs ==
    {SCHEME \o t : t \in SeqsUpTo(Alphabet, MaxTail)}
    \cup {SubSeq(SCHEME, 1, k) \o t :
            k \in 0..(Len(SCHEME) - 1), t \in SeqsUpTo(Alphabet, MaxShort)}
    \cup UNION {{ReplaceAt(SCHEME, i, ch) \o t :
                   ch \in Alphabet \cup {ToUpper(SCHEME[i])},
                   t \in SeqsUpTo(Alphabet, MaxShort)} : i \in 1..Len(SCHEME)}

(***************************************************************************)
(* validate(spiffe_id), one action per statement group.                    *)
(***************************************************************************)
Init ==
    /\ spiffe_id \in Inputs
    /\ pc = "length_guard"
    /\ cursor = 0
    /\ c = ""
    /\ authority = << >>
    /\ path = << >>
    /\ segment_start = 0
    /\ segment = << >>
    /\ result = NoResult
    /\ call = "first"
    /\ first_id = << >>
    /\ first_result = NoResult

Return(r) ==
    /\ pc' = "done"
    /\ result' = r

\* the length guard with the wrong verdict in its return
LengthGuardAccepting ==
    /\ pc = "length_guard"
    /\ IF Len(spiffe_id) < 10
       THEN Return([valid |-> TRUE, authority |-> None, path |-> None])
       ELSE pc' = "scheme_check" /\ UNCHANGED result
    /\ UNCHANGED <<spiffe_id, locals, callstate>>

\* if len(spiffe_id) < 10: return False, None, None
LengthGuard ==
    /\ pc = "length_guard"
    /\ IF Len(spiffe_id) < 10
       THEN Return(Invalid)
       ELSE pc' = "scheme_check" /\ UNCHANGED result
    /\ UNCHANGED <<spiffe_id, locals, callstate>>

\* the scheme check comparing without regard to case
SchemeCheckIgnoringCase ==
    /\ pc = "scheme_check"
    /\ IF [k \in 1..Len(substring(spiffe_id, 0, 9)) |->
             ToLower(substring(spiffe_id, 0, 9)[k])] # SCHEME
       THEN Return(Invalid) /\ cursor' = 0
       ELSE pc' = "authority_test" /\ cursor' = 9 /\ UNCHANGED result
    /\ UNCHANGED <<spiffe_id, c, authority, path, segment_start, segment, callstate>>

\* cursor = 0; if substring(spiffe_id, cursor, 9) != "spiffe://": return ...
SchemeCheck ==
    /\ pc = "scheme_check"
    /\ IF substring(spiffe_id, 0, 9) # SCHEME
       THEN Return(Invalid) /\ cursor' = 0
       ELSE pc' = "authority_test" /\ cursor' = 9 /\ UNCHANGED result
    /\ UNCHANGED <<spiffe_id, c, authority, path, segment_start, segment, callstate>>

\* the loop test off by one: cursor <= len(spiffe_id)
AuthorityTestInclusive ==
    /\ pc = "authority_test"
    /\ pc' = IF cursor <= Len(spiffe_id) THEN "authority_body" ELSE "extract"
    /\ UNCHANGED <<spiffe_id, locals, result, callstate>>

\* while cursor < len(spiffe_id):
AuthorityTest ==
    /\ pc = "authority_test"
    /\ pc' = IF cursor < Len(spiffe_id) THEN "authority_body" ELSE "extract"
    /\ UNCHANGED <<spiffe_id, locals, result, callstate>>

\* the authority loop leaving at the first character that is no authority
\* character, whichever it is, instead of rejecting it
AuthorityBodyBreaking ==
    /\ pc = "authority_body"
    /\ LET ch == character_at(spiffe_id, cursor) IN
       IF ch = IndexError
       THEN pc' = "raised" /\ UNCHANGED <<c, cursor, result>>
       ELSE /\ c' = ch
            /\ IF ch = "/" \/ ~In(ch, AUTHORITY_CHARS)
               THEN pc' = "extract" /\ UNCHANGED <<cursor, result>>
               ELSE pc' = "authority_test" /\ cursor' = cursor + 1
                    /\ UNCHANGED result
    /\ UNCHANGED <<spiffe_id, authority, path, segment_start, segment, callstate>>

\* c = character_at(...); if c == "/": break;
\* if c not in AUTHORITY_CHARS: return ...; cursor += 1
AuthorityBody ==
    /\ pc = "authority_body"
    /\ LET ch == character_at(spiffe_id, cursor) IN
       IF ch = IndexError
       THEN pc' = "raised" /\ UNCHANGED <<c, cursor, result>>
       ELSE /\ c' = ch
            /\ IF ch = "/"
               THEN pc' = "extract" /\ UNCHANGED <<cursor, result>>
               ELSE IF ~In(ch, AUTHORITY_CHARS)
               THEN Return(Invalid) /\ UNCHANGED cursor
               ELSE pc' = "authority_test" /\ cursor' = cursor + 1
                    /\ UNCHANGED result
    /\ UNCHANGED <<spiffe_id, authority, path, segment_start, segment, callstate>>

\* the extraction with the path taken after its leading slash
ExtractPathAfterSlash ==
    /\ pc = "extract"
    /\ authority' = substring(spiffe_id, 9, cursor)
    /\ path' = substring(spiffe_id, cursor + 1, Len(spiffe_id))
    /\ pc' = "authority_empty"
    /\ UNCHANGED <<spiffe_id, cursor, c, segment_start, segment, result, callstate>>

\* authority = substring(spiffe_id, 9, cursor)
\* path = substring(spiffe_id, cursor, len(spiffe_id))
Extract ==
    /\ pc = "extract"
    /\ authority' = substring(spiffe_id, 9, cursor)
    /\ path' = substring(spiffe_id, cursor, Len(spiffe_id))
    /\ pc' = "authority_empty"
    /\ UNCHANGED <<spiffe_id, cursor, c, segment_start, segment, result, callstate>>

\* the empty-authority check left out
AuthorityEmptyUnchecked ==
    /\ pc = "authority_empty"
    /\ pc' = "path_empty"
    /\ UNCHANGED <<spiffe_id, locals, result, callstate>>

\* if len(authority) == 0: return False, None, None
AuthorityEmpty ==
    /\ pc = "authority_empty"
    /\ IF Len(authority) = 0
       THEN Return(Invalid)
       ELSE pc' = "path_empty" /\ UNCHANGED result
    /\ UNCHANGED <<spiffe_id, locals, callstate>>

\* if len(path) == 0: return True, authority, path
PathEmpty ==
    /\ pc = "path_empty"
    /\ IF Len(path) = 0
       THEN Return(Valid(authority, path))
       ELSE pc' = "path_enter" /\ UNCHANGED result
    /\ UNCHANGED <<spiffe_id, locals, callstate>>

\* cursor += 1; segment_start = cursor
PathEnter ==
    /\ pc = "path_enter"
    /\ cursor' = cursor + 1
    /\ segment_start' = cursor + 1
    /\ pc' = "path_test"
    /\ UNCHANGED <<spiffe_id, c, authority, path, segment, result, callstate>>

\* while cursor < len(spiffe_id):
PathTest ==
    /\ pc = "path_test"
    /\ pc' = IF cursor < Len(spiffe_id) THEN "path_body" ELSE "final_segment"
    /\ UNCHANGED <<spiffe_id, locals, result, callstate>>

\* the body of the path loop
PathBody ==
    /\ pc = "path_body"
    /\ LET ch == character_at(spiffe_id, cursor) IN
       IF ch = IndexError
       THEN pc' = "raised" /\ UNCHANGED <<c, cursor, segment_start, segment, result>>
       ELSE /\ c' = ch
            /\ IF ch = "/"
               THEN LET seg == substring(spiffe_id, segment_start, cursor) IN
                    /\ segment' = seg
                    /\ IF SegmentRejected(seg)
                       THEN Return(Invalid) /\ UNCHANGED <<cursor, segment_start>>
                       ELSE /\ cursor' = cursor + 1
                            /\ segment_start' = cursor + 1
                            /\ pc' = "path_test"
                            /\ UNCHANGED result
               ELSE IF ~In(ch, PATH_SEGMENT_CHARS)
               THEN Return(Invalid) /\ UNCHANGED <<cursor, segment_start, segment>>
               ELSE /\ cursor' = cursor + 1
                    /\ pc' = "path_test"
                    /\ UNCHANGED <<segment_start, segment, result>>
    /\ UNCHANGED <<spiffe_id, authority, path, callstate>>

\* segment = substring(spiffe_id, segment_start, cursor)
\* if segment in ["", ".", ".."]: return ...;  return True, authority, path
FinalSegment ==
    /\ pc = "final_segment"
    /\ LET seg == substring(spiffe_id, segment_start, cursor) IN
       /\ segment' = seg
       /\ IF SegmentRejected(seg)
          THEN Return(Invalid)
          ELSE Return(Valid(authority, path))
    /\ UNCHANGED <<spiffe_id, cursor, c, authority, path, segment_start, callstate>>

validate ==
    \/ LengthGuard
    \/ SchemeCheck
    \/ AuthorityTest
    \/ AuthorityBody
    \/ Extract
    \/ AuthorityEmpty
    \/ PathEmpty
    \/ PathEnter
    \/ PathTest
    \/ PathBody
    \/ FinalSegment

(***************************************************************************)
(* Further calls.  validate() keeps nothing between calls: a call starts   *)
(* with fresh locals.  After the first call returned, its input and result *)
(* are remembered and validate() is called once more, on a related input.  *)
(***************************************************************************)
Enter(id, kind, at) ==
    /\ pc = "done"
    /\ call = "first"
    /\ first_id' = spiffe_id
    /\ first_result' = result
    /\ call' = kind
    /\ spiffe_id' = id
    /\ pc' = at
    /\ cursor' = 0
    /\ c' = ""
    /\ authority' = << >>
    /\ path' = << >>
    /\ segment_start' = 0
    /\ segment' = << >>
    /\ result' = NoResult

\* validate("spiffe://" + authority + path) on the parts a valid result gave
Revalidate ==
    /\ result.valid
    /\ Enter(SCHEME \o result.authority \o result.path, "roundtrip", "length_guard")

\* validate() on an accepted input with letters of its prefix uppercased
ValidateUppercased ==
    /\ result.valid
    /\ \E U \in (SUBSET SchemeLetters) \ {{}} :
          Enter(UpperAt(spiffe_id, U), "uppercased", "length_guard")

\* the same input through validate() with lines 25-26 left out:
\* the body starts at the scheme check
ValidateUnguarded ==
    Enter(spiffe_id, "unguarded", "scheme_check")

Next ==
    \/ validate
    \/ Revalidate
    \/ ValidateUppercased
    \/ ValidateUnguarded

Spec == Init /\ [][Next]_vars

(***************************************************************************)
(* The character classes and the grammar as the specification words them.  *)
(***************************************************************************)
LowerLetters ==
    {"a","b","c","d","e","f","g","h","i","j","k","l","m",
     "n","o","p","q","r","s","t","u","v","w","x","y","z"}

UpperLetters ==
    {"A","B","C","D","E","F","G","H","I","J","K","L","M",
     "N","O","P","Q","R","S","T","U","V","W","X","Y","Z"}

Digits == {"0","1","2","3","4","5","6","7","8","9"}

AuthorityClass == LowerLetters \cup Digits \cup {".", "-", "_"}

PathClass == LowerLetters \cup UpperLetters \cup Digits \cup {".", "-", "_"}

Range(s) == {s[k] : k \in DOMAIN s}

\* the positions that delimit the '/'-separated pieces of s
Cuts(s) == {0, Len(s) + 1} \cup {k \in DOMAIN s : s[k] = "/"}

\* the '/'-separated pieces of s
Pieces(s) ==
    {SubSeq(s, a + 1, b - 1) :
       <<a, b>> \in {ab \in Cuts(s) \X Cuts(s) :
                      /\ ab[1] < ab[2]
                      /\ \A k \in Cuts(s) : ~(ab[1] < k /\ k < ab[2])}}

Returned == pc = "done"

(***************************************************************************)
(* Properties.                                                             *)
(***************************************************************************)

\* C1: on a Valid result the authority is non-empty and made of
\* authority characters only; the path is empty, or it starts with '/',
\* does not end with '/', and none of the '/'-separated segments after its
\* leading '/' is "", "." or "..".
C1_ValidResultWellFormed ==
    (Returned /\ call # "unguarded" /\ result.valid) =>
        /\ Len(result.authority) > 0
        /\ Range(result.authority) \subseteq AuthorityClass
        /\ \/ result.path = << >>
           \/ /\ Head(result.path) = "/"
              /\ result.path[Len(result.path)] # "/"
              /\ \A seg \in Pieces(Tail(result.path)) :
                    seg \notin {<< >>, <<".">>, <<".", ".">>}

\* a two-segment path was accepted
C1_Witness ==
    /\ Returned /\ call = "first" /\ result.valid
    /\ Cardinality({k \in DOMAIN result.path : result.path[k] = "/"}) = 2

\* C2: validating "spiffe://" + authority + path of a Valid result gives
\* Valid with the same authority and the same path.
C2_RoundTrip ==
    (Returned /\ call = "roundtrip") =>
        /\ first_result.valid
        /\ spiffe_id = SCHEME \o first_result.authority \o first_result.path
        /\ result = Valid(first_result.authority, first_result.path)

\* the round trip of a result with a path returned
C2_Witness ==
    /\ Returned /\ call = "roundtrip"
    /\ Len(first_result.authority) >= 2
    /\ Len(first_result.path) >= 2

\* C6: every input of fewer than 10 characters is Invalid.
C6_ShortInputInvalid ==
    (Returned /\ call # "unguarded" /\ Len(spiffe_id) < 10) => result = Invalid

\* validate("spiffe://") returned
C6_Witness ==
    Returned /\ call = "first" /\ spiffe_id = SCHEME

\* C9: validate() without its length guard returns what validate() returns,
\* on every input; the inputs shorter than 10 are rejected by the scheme
\* check or by the empty-authority check.
C9_GuardIsFastPath ==
    (Returned /\ call = "unguarded") =>
        /\ spiffe_id = first_id
        /\ result = first_result
        /\ Len(spiffe_id) < 10 =>
              /\ result = Invalid
              /\ \/ substring(spiffe_id, 0, 9) # SCHEME
                 \/ Len(authority) = 0

\* the unguarded body rejected "spiffe://" at the empty-authority check
C9_Witness ==
    /\ Returned /\ call = "unguarded"
    /\ spiffe_id = SCHEME
    /\ cursor = 9
    /\ result = Invalid

\* what is left of a call: the statements still ahead at pc, and two steps
\* (loop test, loop body) for each character not yet scanned
Ahead ==
    CASE pc = "length_guard" -> 11
      [] pc = "scheme_check" -> 10
      [] pc = "authority_test" -> 9
      [] pc = "authority_body" -> 8
      [] pc = "extract" -> 7
      [] pc = "authority_empty" -> 6
      [] pc = "path_empty" -> 5
      [] pc = "path_enter" -> 4
      [] pc = "path_test" -> 3
      [] pc = "path_body" -> 2
      [] pc = "final_segment" -> 1
      [] OTHER -> 0

Measure == Ahead + 2 * (Len(spiffe_id) - cursor)

\* C3: validate is total.  No call raises: every character_at is made with
\* 0 <= cursor < len(spiffe_id).  Every call terminates: a call that has not
\* returned can take a step, and every step lowers a measure that is never
\* negative.  What it returns is a verdict, and the verdict on a rejected
\* input is (False, None, None).
C3_Total ==
    /\ [](pc # "raised")
    /\ [](pc \in {"authority_body", "path_body"} =>
             (0 <= cursor /\ cursor < Len(spiffe_id)))
    /\ [](Returned \/ ENABLED validate)
    /\ [](Measure >= 0)
    /\ [][validate => Measure' < Measure]_vars
    /\ [](Returned =>
            \/ result = Invalid
            \/ /\ result = Valid(authority, path)
               /\ Range(authority) \cup Range(path) \subseteq Range(spiffe_id))

\* the last character of an input is being read by the path loop
C3_Witness ==
    /\ pc = "path_body"
    /\ cursor = Len(spiffe_id) - 1
    /\ character_at(spiffe_id, cursor) # IndexError

\* the position of the first '/' of s after the prefix, or Len(s) + 1
FirstSlash(s) ==
    LET at == {k \in 10..Len(s) : s[k] = "/"} IN
    IF at = {} THEN Len(s) + 1 ELSE CHOOSE k \in at : \A j \in at : k <= j

\* s begins with "spiffe://" and has a character outside the authority class
\* before its first '/'
OutOfClassInAuthority(s) ==
    /\ Len(s) >= 9
    /\ SubSeq(s, 1, 9) = SCHEME
    /\ \E k \in 10..(FirstSlash(s) - 1) : s[k] \notin AuthorityClass

\* s begins with "spiffe://" and has, after its first '/', a character
\* that is neither '/' nor of the path class
OutOfClassInPath(s) ==
    /\ Len(s) >= 9
    /\ SubSeq(s, 1, 9) = SCHEME
    /\ \E k \in (FirstSlash(s) + 1)..Len(s) : s[k] # "/" /\ s[k] \notin PathClass

\* C4: an input that begins with "spiffe://" and has a character outside
\* AuthorityChars between position 9 and its first '/', or a character that
\* is neither '/' nor in PathSegmentChars after that '/', is Invalid.
C4_OutOfClassInvalid ==
    (/\ Returned
     /\ call # "unguarded"
     /\ OutOfClassInAuthority(spiffe_id) \/ OutOfClassInPath(spiffe_id))
        => result = Invalid

\* the path loop rejected '%' as the last character, after a good segment
C4_Witness ==
    /\ Returned /\ call = "first"
    /\ OutOfClassInPath(spiffe_id)
    /\ ~OutOfClassInAuthority(spiffe_id)
    /\ c = "%"
    /\ cursor = Len(spiffe_id) - 1
    /\ cursor > segment_start
    /\ result = Invalid

\* C5: an input whose first 9 characters are not exactly "spiffe://" is
\* Invalid; so is an accepted input with one or more letters of its
\* "spiffe://" prefix uppercased.
C5_SchemeExact ==
    /\ (Returned /\ call # "unguarded" /\ substring(spiffe_id, 0, 9) # SCHEME)
          => result = Invalid
    /\ (Returned /\ call = "uppercased") =>
          /\ first_result.valid
          /\ \E U \in (SUBSET SchemeLetters) \ {{}} : spiffe_id = UpperAt(first_id, U)
          /\ spiffe_id # first_id
          /\ SubSeq(spiffe_id, 10, Len(spiffe_id)) = SubSeq(first_id, 10, Len(first_id))
          /\ result = Invalid

\* "Spiffe://..." of an accepted input with a path was rejected
C5_Witness ==
    /\ Returned /\ call = "uppercased"
    /\ first_result.valid
    /\ Len(first_result.path) > 0
    /\ spiffe_id = UpperAt(first_id, {1})
    /\ result = Invalid

\* C7 as stated: no character belongs to both AUTHORITY_CHARS and
\* PATH_SEGMENT_CHARS.
C7_Disjoint ==
    Returned => Range(AUTHORITY_CHARS) \cap Range(PATH_SEGMENT_CHARS) = {}

\* C7 amended: the two classes are not disjoint.  Every character of
\* AUTHORITY_CHARS also belongs to PATH_SEGMENT_CHARS, which holds the
\* uppercase letters A-Z besides; so every character of an accepted
\* authority is a path-segment character too.
C7_AuthoritySubsetOfPath ==
    /\ Range(AUTHORITY_CHARS) \subseteq Range(PATH_SEGMENT_CHARS)
    /\ Range(PATH_SEGMENT_CHARS) \ Range(AUTHORITY_CHARS) = UpperLetters
    /\ (Returned /\ result.valid) =>
          \A k \in DOMAIN result.authority :
             In(result.authority[k], PATH_SEGMENT_CHARS)

\* one character was accepted in the authority and in the path of an input
C7_Witness ==
    /\ Returned /\ call = "first" /\ result.valid
    /\ Range(result.authority) \cap Range(result.path) # {}

\* C8: once the authority scan has ended without rejecting and the
\* authority is not empty, exactly one of two cases holds: the cursor is at
\* the end of the input and the path is "", and then the result is Valid
\* with path ""; or the cursor is before the end and the character at the
\* cursor is '/'.  The path segmentation is entered only on a '/'.
C8_PathStart ==
    /\ pc = "path_empty" =>
          /\ Len(authority) > 0
          /\ (cursor = Len(spiffe_id) /\ path = << >>)
                # (cursor < Len(spiffe_id) /\ character_at(spiffe_id, cursor) = "/")
    /\ pc = "path_enter" =>
          /\ cursor < Len(spiffe_id)
          /\ character_at(spiffe_id, cursor) = "/"
          /\ Head(path) = "/"
    /\ (Returned /\ Len(authority) > 0 /\ cursor = Len(spiffe_id) /\ path = << >>)
          => result = Valid(authority, << >>)
    /\ pc \in {"path_test", "path_body", "final_segment"} =>
          /\ segment_start >= 1
          /\ character_at(spiffe_id, segment_start - 1) = "/"
          /\ character_at(spiffe_id, 9 + Len(authority)) = "/"

\* the path segmentation is about to be entered after a two-character authority
C8_Witness ==
    /\ pc = "path_enter"
    /\ Len(authority) = 2
    /\ cursor = 11

\* the paths of the grammar: "" or one or more pieces "/" + segment
RECURSIVE GrammarPath(_)
GrammarPath(p) ==
    \/ p = << >>
    \/ /\ Len(p) >= 2
       /\ p[1] = "/"
       /\ \E j \in 2..Len(p) :
             LET seg == SubSeq(p, 2, j) IN
             /\ Range(seg) \subseteq PathClass
             /\ seg \notin {<<".">>, <<".", ".">>}
             /\ GrammarPath(SubSeq(p, j + 1, Len(p)))

\* the ways to read s as "spiffe://" + A + P of the grammar
GrammarParses(s) ==
    {ap \in {<<SubSeq(s, 10, k), SubSeq(s, k + 1, Len(s))>> : k \in 10..Len(s)} :
       /\ Len(s) >= 10
       /\ SubSeq(s, 1, 9) = SCHEME
       /\ Range(ap[1]) \subseteq AuthorityClass
       /\ GrammarPath(ap[2])}

\* C10: validate accepts exactly the strings "spiffe://" + A + P of the
\* grammar (A a non-empty string of authority characters, P empty or
\* pieces "/" + S, each S a non-empty string of path characters other than
\* "." and ".."), and returns A and P for them.  The two tables hold
\* exactly the characters of the two classes.
C10_VerdictIsGrammar ==
    /\ Range(AUTHORITY_CHARS) = AuthorityClass
    /\ Range(PATH_SEGMENT_CHARS) = PathClass
    /\ (Returned /\ call # "unguarded") =>
          IF GrammarParses(spiffe_id) = {}
          THEN result = Invalid
          ELSE /\ result.valid
               /\ GrammarParses(spiffe_id) = {<<result.authority, result.path>>}

\* "spiffe://s/..S" was accepted: a segment that starts with dots
C10_Witness ==
    /\ Returned /\ call = "first"
    /\ result = Valid(<<"s">>, <<"/", ".", ".", "S">>)
    /\ GrammarParses(spiffe_id) # {}
====
